---------------------------- MODULE Spec2Model ----------------------------
(***************************************************************************)
(* Model of the CLI calculator in src/src/main.rs.                         *)
(*                                                                         *)
(* The program is one run of main: clap parses the command line into       *)
(* matches (six optional slots), main resolves each logical field from   *)
(* its positional slot or else its flag slot, calls calc and prints.      *)
(*                                                                         *)
(* Texts are sequences of one-character strings so that case folding and   *)
(* number parsing are computed character by character.  An Option<T> is a  *)
(* sequence of length at most one: <<>> is None and <<v>> is Some(v).      *)
(*                                                                         *)
(* An f64 is abstracted to an exact value: a signed rational (with signed  *)
(* zero), a signed infinity or NaN.  The operand texts of the model are    *)
(* chosen so that every sum, difference, product and quotient of two of    *)
(* them is exactly representable in binary64, so no rounding is lost.      *)
(*                                                                         *)
(* A command-line token is either a bare word (k = "pos") or one of the    *)
(* three options together with its value (k = "opt", as in --first=2.5 or  *)
(* -f 2.5).  Command lines are built from the six declared arguments only; *)
(* clap's built-in --help/--version and the "--" escape are not modelled.  *)
(***************************************************************************)
EXTENDS Integers, Sequences, FiniteSets, TLC

(***************************************************************************)
(* Characters and texts                                                    *)
(***************************************************************************)
Upper == <<"A","B","C","D","E","F","G","H","I","J","K","L","M",
           "N","O","P","Q","R","S","T","U","V","W","X","Y","Z">>
Lower == <<"a","b","c","d","e","f","g","h","i","j","k","l","m",
           "n","o","p","q","r","s","t","u","v","w","x","y","z">>

\* u8::to_ascii_lowercase: 'A'..'Z' map to 'a'..'z', every other byte is kept
CharLower(c) ==
    IF \E i \in 1..Len(Upper) : Upper[i] = c
    THEN Lower[CHOOSE i \in 1..Len(Upper) : Upper[i] = c]
    ELSE c

\* the token used as typed: the lowering forgotten
to_ascii_lowercase_kept(s) == s

\* str::to_ascii_lowercase
to_ascii_lowercase(s) == [i \in 1..Len(s) |-> CharLower(s[i])]

\* str::eq_ignore_ascii_case
eq_ignore_ascii_case(s, t) == to_ascii_lowercase(s) = to_ascii_lowercase(t)

(***************************************************************************)
(* f64 values and arithmetic                                               *)
(***************************************************************************)
RECURSIVE GCD(_, _)
GCD(a, b) == IF b = 0 THEN a ELSE GCD(b, a % b)

\* a finite value (-1)^neg * n / d in lowest terms; n = 0 is a signed zero
Fin(neg, n, d) ==
    LET g == GCD(n, d)
    IN  [k |-> "fin", neg |-> neg, num |-> n \div g, den |-> d \div g]
Inf(neg) == [k |-> "inf", neg |-> neg, num |-> 1, den |-> 0]
NaN      == [k |-> "nan", neg |-> FALSE, num |-> 0, den |-> 0]

PosZero == Fin(FALSE, 0, 1)
NegZero == Fin(TRUE, 0, 1)

IsZero(x) == x.k = "fin" /\ x.num = 0

\* a comparison of the bit patterns: -0.0 differs from +0.0
FEq_bits(a, b) == a = b

\* f64 == : NaN equals nothing, +0.0 equals -0.0
FEq(a, b) ==
    /\ a.k # "nan"
    /\ b.k # "nan"
    /\ \/ IsZero(a) /\ IsZero(b)
       \/ a = b

FNeg(a) == IF a.k = "nan" THEN a ELSE [a EXCEPT !.neg = ~a.neg]

Signed(a) == IF a.neg THEN 0 - a.num ELSE a.num
Abs(n) == IF n < 0 THEN 0 - n ELSE n

\* f64 +
FAdd(a, b) ==
    IF a.k = "nan" \/ b.k = "nan" THEN NaN
    ELSE IF a.k = "inf" /\ b.k = "inf"
         THEN (IF a.neg = b.neg THEN a ELSE NaN)
    ELSE IF a.k = "inf" THEN a
    ELSE IF b.k = "inf" THEN b
    ELSE LET n == Signed(a) * b.den + Signed(b) * a.den
             d == a.den * b.den
         IN  IF n = 0 THEN Fin(a.neg /\ b.neg, 0, 1)
             ELSE Fin(n < 0, Abs(n), d)

\* f64 -
FSub(a, b) == FAdd(a, FNeg(b))

\* f64 *
FMul(a, b) ==
    IF a.k = "nan" \/ b.k = "nan" THEN NaN
    ELSE IF (a.k = "inf" /\ IsZero(b)) \/ (IsZero(a) /\ b.k = "inf") THEN NaN
    ELSE IF a.k = "inf" \/ b.k = "inf" THEN Inf(a.neg # b.neg)
    ELSE Fin(a.neg # b.neg, a.num * b.num, a.den * b.den)

\* f64 /
FDiv(a, b) ==
    IF a.k = "nan" \/ b.k = "nan" THEN NaN
    ELSE IF a.k = "inf" /\ b.k = "inf" THEN NaN
    ELSE IF a.k = "inf" THEN Inf(a.neg # b.neg)
    ELSE IF b.k = "inf" THEN Fin(a.neg # b.neg, 0, 1)
    ELSE IF IsZero(b) THEN (IF IsZero(a) THEN NaN ELSE Inf(a.neg # b.neg))
    ELSE Fin(a.neg # b.neg, a.num * b.den, a.den * b.num)

(***************************************************************************)
(* Option<T>                                                               *)
(***************************************************************************)
None    == <<>>
Some(v) == <<v>>
\* the fallback taken first: the flag before the positional
or_else_swapped(a, b) == IF b # <<>> THEN b ELSE a

\* Option::or_else
or_else(a, b) == IF a # None THEN a ELSE b

(***************************************************************************)
(* clap value parsers                                                      *)
(***************************************************************************)
Digits == <<"0","1","2","3","4","5","6","7","8","9">>
IsDigit(c) == \E i \in 1..Len(Digits) : Digits[i] = c
DigitVal(c) == (CHOOSE i \in 1..Len(Digits) : Digits[i] = c) - 1

RECURSIVE Pow10(_)
Pow10(n) == IF n = 0 THEN 1 ELSE 10 * Pow10(n - 1)

\* the digits of s read as one decimal integer, the point skipped
RECURSIVE DecDigits(_, _)
DecDigits(s, acc) ==
    IF s = <<>> THEN acc
    ELSE IF Head(s) = "." THEN DecDigits(Tail(s), acc)
    ELSE DecDigits(Tail(s), 10 * acc + DigitVal(Head(s)))

\* the number of digits after the decimal point
FracLen(s) ==
    IF \E i \in 1..Len(s) : s[i] = "."
    THEN Len(s) - (CHOOSE i \in 1..Len(s) : s[i] = ".")
    ELSE 0

\* <f64 as FromStr>::from_str, as used by clap::value_parser!(f64): an
\* optional sign, then inf / infinity / nan in any case, or decimal digits
\* with at most one point and at least one digit.  (Exponents are outside
\* the texts of the model.)
ParseF64(s) ==
    LET signed == s # <<>> /\ s[1] \in {"+", "-"}
        neg    == s # <<>> /\ s[1] = "-"
        body   == IF signed THEN Tail(s) ELSE s
        low    == to_ascii_lowercase(body)
        points == {i \in 1..Len(body) : body[i] = "."}
        digs   == {i \in 1..Len(body) : IsDigit(body[i])}
    IN  IF low \in {<<"i","n","f">>, <<"i","n","f","i","n","i","t","y">>}
        THEN Some(Inf(neg))
        ELSE IF low = <<"n","a","n">> THEN Some(NaN)
        ELSE IF /\ Cardinality(points) <= 1
                /\ Cardinality(digs) >= 1
                /\ Cardinality(points) + Cardinality(digs) = Len(body)
             THEN Some(Fin(neg, DecDigits(body, 0), Pow10(FracLen(body))))
             ELSE None

\* .value_parser(["Add", "Sub", "Mul", "Div", "+", "-", "*", "/"])
PossibleValues ==
    { <<"A","d","d">>, <<"S","u","b">>, <<"M","u","l">>, <<"D","i","v">>,
      <<"+">>, <<"-">>, <<"*">>, <<"/">> }

\* a parser without the list of possible values: any text is stored
ParseOperation_any(s) == <<s>>

\* the possible-values parser with .ignore_case(true): a text that equals a
\* possible value up to ASCII case is accepted and stored as it was typed
ParseOperation(s) ==
    IF \E pv \in PossibleValues : eq_ignore_ascii_case(pv, s)
    THEN Some(s)
    ELSE None

(***************************************************************************)
(* calc                                                                    *)
(***************************************************************************)
Ok(v)    == [tag |-> "Ok",    val |-> Some(v), msg |-> ""]
Err(m)   == [tag |-> "Err",   val |-> None,    msg |-> m]
Panic(m) == [tag |-> "Panic", val |-> None,    msg |-> m]

DivisionByZero == "Error: Division by zero"
Unreachable    == "internal error: entered unreachable code"

\* calc without the upper-case alternatives of its arms
calc_lower_only(operation, operand1, operand2) ==
    IF operation \in {<<"a","d","d">>, <<"+">>}
    THEN Ok(FAdd(operand1, operand2))
    ELSE IF operation \in {<<"s","u","b">>, <<"-">>}
    THEN Ok(FSub(operand1, operand2))
    ELSE IF operation \in {<<"m","u","l">>, <<"*">>}
    THEN Ok(FMul(operand1, operand2))
    ELSE IF operation \in {<<"d","i","v">>, <<"/">>}
    THEN (IF FEq(operand2, PosZero)
          THEN Err(DivisionByZero)
          ELSE Ok(FDiv(operand1, operand2)))
    ELSE Panic(Unreachable)

\* calc with the zero test hoisted above the match: it guards every operation
calc_guard_all(operation, operand1, operand2) ==
    IF FEq(operand2, PosZero)
    THEN Err(DivisionByZero)
    ELSE IF operation \in {<<"A","D","D">>, <<"a","d","d">>, <<"+">>}
    THEN Ok(FAdd(operand1, operand2))
    ELSE IF operation \in {<<"S","U","B">>, <<"s","u","b">>, <<"-">>}
    THEN Ok(FSub(operand1, operand2))
    ELSE IF operation \in {<<"M","U","L">>, <<"m","u","l">>, <<"*">>}
    THEN Ok(FMul(operand1, operand2))
    ELSE IF operation \in {<<"D","I","V">>, <<"d","i","v">>, <<"/">>}
    THEN Ok(FDiv(operand1, operand2))
    ELSE Panic(Unreachable)

calc(operation, operand1, operand2) ==
    IF operation \in {<<"A","D","D">>, <<"a","d","d">>, <<"+">>}
    THEN Ok(FAdd(operand1, operand2))
    ELSE IF operation \in {<<"S","U","B">>, <<"s","u","b">>, <<"-">>}
    THEN Ok(FSub(operand1, operand2))
    ELSE IF operation \in {<<"M","U","L">>, <<"m","u","l">>, <<"*">>}
    THEN Ok(FMul(operand1, operand2))
    ELSE IF operation \in {<<"D","I","V">>, <<"d","i","v">>, <<"/">>}
    THEN (IF FEq(operand2, PosZero)
          THEN Err(DivisionByZero)
          ELSE Ok(FDiv(operand1, operand2)))
    ELSE Panic(Unreachable)

(***************************************************************************)
(* The run of main                                                         *)
(***************************************************************************)
VARIABLES
    pc,          \* where the run is: "get_matches", "operation", "operand1",
                 \* "operand2", "calc" or "exit"
    matches,     \* clap's ArgMatches: one Option per declared argument
    argc,        \* command-line tokens consumed so far
    operation,   \* main's local operation (Option: None until bound)
    operand1,    \* main's local operand1
    operand2,    \* main's local operand2
    called,      \* None, or Some(<<op, a, b>>): the arguments calc was called with
    result,      \* None, or Some of what that call of calc returned
    token,       \* the token get_matches read last (None once it has returned)
    stdout,      \* lines written to standard output
    stderr,      \* lines written to standard error
    exitStatus,  \* the process exit status, Running until the process ends
    argv,        \* command-line tokens still to be read (fixed command lines)
    given        \* None, or Some of the fields a fixed command line was built from

vars == <<pc, matches, argc, operation, operand1, operand2, called, result,
          token, stdout, stderr, exitStatus, argv, given>>

\* the most tokens a command line of the model has
MaxArgs == 6

Running     == -1
ExitOk      == 0
ExitUsage   == 2
ExitPanic   == 101

Positionals == <<"operation", "operand1", "operand2">>
Flags       == {"operation_flag", "operand1_flag", "operand2_flag"}

\* the texts command-line tokens carry
OpTexts ==
    { <<"A","d","d">>, <<"A","D","D">>, <<"+">>, <<"s","u","b">>, <<"-">>,
      <<"*">>, <<"D","i","v">>, <<"/">>, <<"p","o","w">> }
NumTexts ==
    { <<"0">>, <<"-","0">>, <<"2">>, <<"a","b","c">> }
Texts == OpTexts \cup NumTexts

PosTok(text)       == [k |-> "pos", name |-> "", text |-> text]
OptTok(name, text) == [k |-> "opt", name |-> name, text |-> text]
Tokens ==
    {PosTok(t) : t \in Texts} \cup {OptTok(n, t) : n \in Flags, t \in Texts}

Line(msg)                 == [msg |-> msg, arg |-> "", value |-> <<>>]
UsageError(msg, arg, val) == [msg |-> msg, arg |-> arg, value |-> val]
NoMatches == [operation |-> None, operand1 |-> None, operand2 |-> None,
              operation_flag |-> None, operand1_flag |-> None,
              operand2_flag |-> None]

\* the value parser declared for an argument
ValueParser(arg, text) ==
    IF arg \in {"operation", "operation_flag"}
    THEN ParseOperation(text)
    ELSE ParseF64(text)

\* a bare token that clap reads as an option rather than a value: it starts
\* with a hyphen and is not the lone "-"
LooksLikeFlag(text) == Len(text) > 1 /\ text[1] = "-"

\* .index(1), .index(2), .index(3): bare tokens fill the positionals in order
PositionalCount(m) == Cardinality({i \in 1..3 : m[Positionals[i]] # None})

\* clap's handling of one token: the matches with the token stored, or the
\* usage error it ends the run with
Accept(m, tok) ==
    IF tok.k = "pos"
    THEN IF LooksLikeFlag(tok.text) \/ PositionalCount(m) = 3
         THEN [ok |-> FALSE, m |-> m,
               err |-> UsageError("error: unexpected argument", "", tok.text)]
         ELSE LET arg == Positionals[PositionalCount(m) + 1]
                  v   == ValueParser(arg, tok.text)
              IN  IF v = None
                  THEN [ok |-> FALSE, m |-> m,
                        err |-> UsageError("error: invalid value", arg, tok.text)]
                  ELSE [ok |-> TRUE, m |-> [m EXCEPT ![arg] = v],
                        err |-> Line("")]
    ELSE IF m[tok.name] # None
         THEN [ok |-> FALSE, m |-> m,
               err |-> UsageError("error: cannot be used multiple times",
                                  tok.name, tok.text)]
         ELSE LET v == ValueParser(tok.name, tok.text)
              IN  IF v = None
                  THEN [ok |-> FALSE, m |-> m,
                        err |-> UsageError("error: invalid value", tok.name, tok.text)]
                  ELSE [ok |-> TRUE, m |-> [m EXCEPT ![tok.name] = v],
                        err |-> Line("")]

Init ==
    /\ pc = "get_matches"
    /\ matches = NoMatches
    /\ argc = 0
    /\ operation = None
    /\ operand1 = None
    /\ operand2 = None
    /\ called = None
    /\ result = None
    /\ token = None
    /\ stdout = <<>>
    /\ stderr = <<>>
    /\ exitStatus = Running
    /\ argv = <<>>
    /\ given = None

\* get_matches consumes one token: it is stored, or the run ends with a
\* usage error and exit status 2
ParseArg(tok) ==
    /\ pc = "get_matches"
    /\ argc < MaxArgs
    /\ argc' = argc + 1
    /\ token' = Some(tok)
    /\ LET r == Accept(matches, tok)
       IN  IF r.ok
           THEN /\ matches' = r.m
                /\ UNCHANGED <<pc, stderr, exitStatus>>
           ELSE /\ stderr' = Append(stderr, r.err)
                /\ exitStatus' = ExitUsage
                /\ pc' = "exit"
                /\ UNCHANGED matches
    /\ UNCHANGED <<operation, operand1, operand2, called, result, stdout, given>>

\* a token of an arbitrary command line
ReadArg ==
    /\ \E tok \in Tokens : ParseArg(tok)
    /\ UNCHANGED argv

\* the end of the command line: get_matches returns
EndOfArgs ==
    /\ pc = "get_matches"
    /\ argv = <<>>
    /\ pc' = "operation"
    /\ token' = None
    /\ UNCHANGED <<matches, argc, operation, operand1, operand2, called, result,
                   stdout, stderr, exitStatus, argv, given>>

MissingOperation == "Error: Operation argument missing"
UnwrapNone       == "called Option::unwrap() on a None value"

\* the missing-operation message printed with println! instead of eprintln!
ResolveOperation_println ==
    /\ pc = "operation"
    /\ LET o == or_else(matches.operation, matches.operation_flag)
       IN  IF o # None
           THEN /\ operation' = Some(to_ascii_lowercase(o[1]))
                /\ pc' = "operand1"
                /\ UNCHANGED <<stdout, exitStatus>>
           ELSE /\ stdout' = Append(stdout, Line(MissingOperation))
                /\ exitStatus' = ExitOk
                /\ pc' = "exit"
                /\ UNCHANGED operation
    /\ UNCHANGED <<matches, argc, operand1, operand2, called, result, token,
                   stderr, argv, given>>

\* let operation = match get_one("operation").or_else(get_one("operation_flag"))
ResolveOperation ==
    /\ pc = "operation"
    /\ LET o == or_else(matches.operation, matches.operation_flag)
       IN  IF o # None
           THEN /\ operation' = Some(to_ascii_lowercase(o[1]))
                /\ pc' = "operand1"
                /\ UNCHANGED <<stderr, exitStatus>>
           ELSE /\ stderr' = Append(stderr, Line(MissingOperation))
                /\ exitStatus' = ExitOk
                /\ pc' = "exit"
                /\ UNCHANGED operation
    /\ UNCHANGED <<matches, argc, operand1, operand2, called, result, token,
                   stdout, argv, given>>

\* let operand1 = get_one("operand1").or_else(get_one("operand1_flag")).unwrap()
ResolveOperand1 ==
    /\ pc = "operand1"
    /\ LET o == or_else(matches.operand1, matches.operand1_flag)
       IN  IF o # None
           THEN /\ operand1' = o
                /\ pc' = "operand2"
                /\ UNCHANGED <<stderr, exitStatus>>
           ELSE /\ stderr' = Append(stderr, Line(UnwrapNone))
                /\ exitStatus' = ExitPanic
                /\ pc' = "exit"
                /\ UNCHANGED operand1
    /\ UNCHANGED <<matches, argc, operation, operand2, called, result, token,
                   stdout, argv, given>>

\* let operand2 = get_one("operand2").or_else(get_one("operand2_flag")).unwrap()
ResolveOperand2 ==
    /\ pc = "operand2"
    /\ LET o == or_else(matches.operand2, matches.operand2_flag)
       IN  IF o # None
           THEN /\ operand2' = o
                /\ pc' = "calc"
                /\ UNCHANGED <<stderr, exitStatus>>
           ELSE /\ stderr' = Append(stderr, Line(UnwrapNone))
                /\ exitStatus' = ExitPanic
                /\ pc' = "exit"
                /\ UNCHANGED operand2
    /\ UNCHANGED <<matches, argc, operation, operand1, called, result, token,
                   stdout, argv, given>>

ResultLine(v) == [msg |-> "Result: ", arg |-> "", value |-> v]

\* match calc(&operation, operand1, operand2) { Ok => println!, Err => eprintln! }
Evaluate ==
    /\ pc = "calc"
    /\ called' = Some(<<operation[1], operand1[1], operand2[1]>>)
    /\ LET r == calc(operation[1], operand1[1], operand2[1])
       IN  /\ result' = Some(r)
           /\ stdout' = IF r.tag = "Ok"
                        THEN Append(stdout, ResultLine(r.val[1]))
                        ELSE stdout
           /\ stderr' = IF r.tag = "Ok" THEN stderr
                        ELSE Append(stderr, Line(r.msg))
           /\ exitStatus' = IF r.tag = "Panic" THEN ExitPanic ELSE ExitOk
    /\ pc' = "exit"
    /\ UNCHANGED <<matches, argc, operation, operand1, operand2, token, argv, given>>

Next ==
    \/ ReadArg
    \/ EndOfArgs
    \/ ResolveOperation
    \/ ResolveOperand1
    \/ ResolveOperand2
    \/ Evaluate

Spec == Init /\ [][Next]_vars

(***************************************************************************)
(* Fixed command lines: each field given in one form                       *)
(***************************************************************************)
Fields == <<"operation", "operand1", "operand2">>
FlagOf == [operation |-> "operation_flag", operand1 |-> "operand1_flag",
           operand2 |-> "operand2_flag"]

\* <prog> with each field written either as a bare word or by its flag, the
\* fields in the order operation, operand1, operand2
CommandLine(g) ==
    [i \in 1..3 |->
        IF g.form[Fields[i]] = "pos"
        THEN PosTok(g[Fields[i]])
        ELSE OptTok(FlagOf[Fields[i]], g[Fields[i]])]

ValidOpTexts  == {t \in OpTexts : ParseOperation(t) # None}
ValidNumTexts == {t \in NumTexts : ParseF64(t) # None /\ ~LooksLikeFlag(t)}

InitMix ==
    /\ pc = "get_matches"
    /\ matches = NoMatches
    /\ argc = 0
    /\ operation = None
    /\ operand1 = None
    /\ operand2 = None
    /\ called = None
    /\ result = None
    /\ token = None
    /\ stdout = <<>>
    /\ stderr = <<>>
    /\ exitStatus = Running
    /\ \E f \in [{"operation", "operand1", "operand2"} -> {"pos", "flag"}],
          o \in ValidOpTexts, a \in ValidNumTexts, b \in ValidNumTexts :
          /\ given = Some([form |-> f, operation |-> o, operand1 |-> a,
                           operand2 |-> b])
          /\ argv = CommandLine(given[1])

\* the next token of the fixed command line
ReadArgv ==
    /\ argv # <<>>
    /\ ParseArg(Head(argv))
    /\ argv' = Tail(argv)

NextMix ==
    \/ ReadArgv
    \/ EndOfArgs
    \/ ResolveOperation
    \/ ResolveOperand1
    \/ ResolveOperand2
    \/ Evaluate

SpecMix == InitMix /\ [][NextMix]_vars

(***************************************************************************)
(* calc called directly, as the unit tests call it                         *)
(***************************************************************************)
CalcOpTexts ==
    { <<"a","d","d">>, <<"A","D","D">>, <<"A","d","d">>, <<"+">>,
      <<"s","u","b">>, <<"S","U","B">>, <<"S","u","b">>, <<"-">>,
      <<"m","u","l">>, <<"M","U","L">>, <<"M","u","l">>, <<"*">>,
      <<"d","i","v">>, <<"D","I","V">>, <<"D","i","v">>, <<"/">> }
CalcNumTexts ==
    { <<"0">>, <<"-","0">>, <<"2">>, <<"-","2">>, <<"0",".","5">>,
      <<"4">>, <<"i","n","f">>, <<"N","a","N">> }

InitCalc ==
    /\ pc = "calc"
    /\ matches = NoMatches
    /\ argc = 0
    /\ operation \in {Some(t) : t \in CalcOpTexts}
    /\ operand1 \in {ParseF64(t) : t \in CalcNumTexts}
    /\ operand2 \in {ParseF64(t) : t \in CalcNumTexts}
    /\ called = None
    /\ result = None
    /\ token = None
    /\ stdout = <<>>
    /\ stderr = <<>>
    /\ exitStatus = Running
    /\ argv = <<>>
    /\ given = None

\* let result = calc(op, a, b)
CallCalc ==
    /\ pc = "calc"
    /\ called' = Some(<<operation[1], operand1[1], operand2[1]>>)
    /\ result' = Some(calc(operation[1], operand1[1], operand2[1]))
    /\ pc' = "exit"
    /\ UNCHANGED <<matches, argc, operation, operand1, operand2, token, stdout,
                   stderr, exitStatus, argv, given>>

NextCalc == CallCalc

SpecCalc == InitCalc /\ [][NextCalc]_vars

(***************************************************************************)
(* Properties                                                              *)
(***************************************************************************)
Supplied(pos, flag) == matches[pos] # <<>> \/ matches[flag] # <<>>
PositionalElseFlag(pos, flag) ==
    IF matches[pos] # <<>> THEN matches[pos][1] ELSE matches[flag][1]

AddSpellings == {<<"a","d","d">>, <<"A","D","D">>, <<"+">>}
SubSpellings == {<<"s","u","b">>, <<"S","U","B">>, <<"-">>}
MulSpellings == {<<"m","u","l">>, <<"M","U","L">>, <<"*">>}
DivSpellings == {<<"d","i","v">>, <<"D","I","V">>, <<"/">>}
ArmSpellings == AddSpellings \cup SubSpellings \cup MulSpellings \cup DivSpellings

\* a text with each of its upper-case ASCII letters lowered
Lowered(s) ==
    [i \in 1..Len(s) |->
        IF \E j \in 1..26 : Upper[j] = s[i]
        THEN Lower[CHOOSE j \in 1..26 : Upper[j] = s[i]]
        ELSE s[i]]

\* the operator a spelling denotes: its lower-case word, a symbol as its word
OperatorOf(s) ==
    LET low == Lowered(s)
    IN  IF low = <<"+">> THEN <<"a","d","d">>
        ELSE IF low = <<"-">> THEN <<"s","u","b">>
        ELSE IF low = <<"*">> THEN <<"m","u","l">>
        ELSE IF low = <<"/">> THEN <<"d","i","v">>
        ELSE low
IsOperator(s) ==
    OperatorOf(s) \in {<<"a","d","d">>, <<"s","u","b">>, <<"m","u","l">>, <<"d","i","v">>}

UsageErrorRaised ==
    \E i \in 1..Len(stderr) :
        stderr[i].msg \in {"error: unexpected argument", "error: invalid value",
                           "error: cannot be used multiple times"}

\* C1: once calc has been called, each of its three arguments is the value of
\* the positional slot of that field when the positional was given, and the
\* value of the flag slot only when the positional is absent (the operation
\* lowered), whatever the sources of the other two fields are.
C1_PositionalWins ==
    called # <<>> =>
        /\ called[1][1] = Lowered(PositionalElseFlag("operation", "operation_flag"))
        /\ called[1][2] = PositionalElseFlag("operand1", "operand1_flag")
        /\ called[1][3] = PositionalElseFlag("operand2", "operand2_flag")

\* C1 witness: calc was called in a run that gave all three fields in both
\* forms with different values.
C1_Witness ==
    /\ called # <<>>
    /\ matches.operation # <<>> /\ matches.operation_flag # <<>>
    /\ OperatorOf(matches.operation[1]) # OperatorOf(matches.operation_flag[1])
    /\ matches.operand1 # <<>> /\ matches.operand1_flag # <<>>
    /\ matches.operand1 # matches.operand1_flag
    /\ matches.operand2 # <<>> /\ matches.operand2_flag # <<>>
    /\ matches.operand2 # matches.operand2_flag

\* what a division is to return: the error for a zero divisor of either
\* sign, the quotient for every other divisor
DivExpected(a, b) ==
    IF b.k = "fin" /\ b.num = 0
    THEN [tag |-> "Err", val |-> <<>>, msg |-> "Error: Division by zero"]
    ELSE [tag |-> "Ok", val |-> <<FDiv(a, b)>>, msg |-> ""]

\* operand values beyond those a run of the model can carry: negative
\* numbers, fractions, infinity and NaN
F64Samples == {ParseF64(t)[1] : t \in CalcNumTexts}

\* C2: for a division reaching calc with operands a and b, every spelling
\* "div", "DIV", "/" returns the error "Error: Division by zero" exactly when
\* b is a zero of either sign and Ok(a / b) otherwise (for the operands of
\* the run and for every pair of sample operands); in the error case main
\* has written that error alone to standard error and nothing to standard
\* output.
C2_DivisionByZero ==
    (pc = "exit" /\ called # <<>> /\ called[1][1] \in DivSpellings) =>
        LET a == called[1][2]
            b == called[1][3]
        IN  /\ \A s \in DivSpellings : calc(s, a, b) = DivExpected(a, b)
            /\ \A s \in DivSpellings : \A x \in F64Samples, y \in F64Samples :
                   calc(s, x, y) = DivExpected(x, y)
            /\ result = <<DivExpected(a, b)>>
            /\ DivExpected(a, b).tag = "Err" =>
                  /\ stderr = <<Line("Error: Division by zero")>>
                  /\ stdout = <<>>

\* C2 witness: a finished run that divided by negative zero and printed the
\* error.
C2_Witness ==
    /\ pc = "exit"
    /\ called # <<>>
    /\ called[1][1] \in DivSpellings
    /\ called[1][3] = NegZero
    /\ stderr = <<Line("Error: Division by zero")>>

\* C3: when get_matches has returned and the operation was given neither
\* positionally nor by --operation/-o, calc is never called and nothing is
\* written to standard output, and the run ends with exactly
\* "Error: Operation argument missing" on standard error, whether or not
\* operands were given.
C3_MissingOperation ==
    (/\ pc # "get_matches"
     /\ ~UsageErrorRaised
     /\ ~Supplied("operation", "operation_flag")) =>
        /\ called = <<>>
        /\ stdout = <<>>
        /\ pc \in {"operation", "exit"}
        /\ pc = "exit" => stderr = <<Line("Error: Operation argument missing")>>

\* C3 witness: a run that gave both operands by flag and no operation has
\* ended with the message.
C3_Witness ==
    /\ pc = "exit"
    /\ ~Supplied("operation", "operation_flag")
    /\ matches.operand1_flag # <<>>
    /\ matches.operand2_flag # <<>>
    /\ stderr = <<Line("Error: Operation argument missing")>>

\* C4: a command line that gives a valid operation and two valid operands,
\* each field either as a bare word or by its flag, ends with calc called on
\* exactly that triple and a result line or the division-by-zero error
\* printed.
C4_AnyMixReachesCalc ==
    (pc = "exit" /\ given # <<>>) =>
        /\ called = << << Lowered(given[1].operation),
                          ParseF64(given[1].operand1)[1],
                          ParseF64(given[1].operand2)[1] >> >>
        /\ \/ Len(stdout) = 1 /\ stderr = <<>>
           \/ stdout = <<>> /\ stderr = <<Line("Error: Division by zero")>>

\* C5: a run whose operation is resolved but which lacks an operand in both
\* forms ends with the message "Error: missing operand", without a panic and
\* without calling calc.
C5_MissingOperandReported ==
    (/\ pc = "exit"
     /\ operation # <<>>
     /\ ~(Supplied("operand1", "operand1_flag") /\ Supplied("operand2", "operand2_flag"))) =>
        /\ stderr = <<Line("Error: missing operand")>>
        /\ exitStatus # ExitPanic
        /\ called = <<>>

C7_InvalidOperationRejected ==
    (/\ token # <<>>
     /\ \/ token[1].k = "opt" /\ token[1].name = "operation_flag"
        \/ token[1].k = "pos" /\ matches.operation = <<>>
     /\ ~IsOperator(token[1].text)) =>
        /\ pc = "exit"
        /\ UsageErrorRaised
        /\ exitStatus # 0 /\ exitStatus # Running
        /\ called = <<>>
        /\ stdout = <<>>

\* C7 witness: "pow" given by --operation after two valid operands ended the
\* run.
C7_Witness ==
    /\ pc = "exit"
    /\ token = <<OptTok("operation_flag", <<"p","o","w">>)>>
    /\ matches.operand1_flag # <<>>
    /\ matches.operand2_flag # <<>>

\* C8: a run that ends in the missing-operation error or in the
\* division-by-zero error ends with exit status zero, and only usage errors
\* raised by argument parsing end a run with a non-zero status.
C8_OnlyUsageErrorsFail ==
    pc = "exit" =>
        /\ stderr \in {<<Line("Error: Operation argument missing")>>,
                       <<Line("Error: Division by zero")>>} => exitStatus = 0
        /\ exitStatus # 0 => UsageErrorRaised

\* C9: whenever calc has been called by main, the operation passed is the
\* resolved token lowered (no upper-case letter is left), it is one of the
\* spellings of calc's explicit arms, and calc did not panic.
C9_UnreachableNeverReached ==
    called # <<>> =>
        /\ called[1][1] = Lowered(PositionalElseFlag("operation", "operation_flag"))
        /\ \A i \in 1..Len(called[1][1]) : \A j \in 1..26 : called[1][1][i] # Upper[j]
        /\ called[1][1] \in ArmSpellings
        /\ result[1].tag # "Panic"
        /\ exitStatus # ExitPanic

\* C9 witness: calc was called in a run whose operation came from the flag
\* in mixed case.
C9_Witness ==
    /\ called # <<>>
    /\ matches.operation = <<>>
    /\ matches.operation_flag = << <<"D","i","v">> >>

\* C10: for add, sub and mul, in the word or the symbol spelling, calc
\* returns Ok of the sum, the difference and the product of its operands and
\* never an error, also when the second operand is zero.
C10_AddSubMul ==
    pc = "exit" =>
        LET a == called[1][2]
            b == called[1][3]
        IN  /\ called[1][1] \in AddSpellings =>
                result = << [tag |-> "Ok", val |-> <<FAdd(a, b)>>, msg |-> ""] >>
            /\ called[1][1] \in SubSpellings =>
                result = << [tag |-> "Ok", val |-> <<FSub(a, b)>>, msg |-> ""] >>
            /\ called[1][1] \in MulSpellings =>
                result = << [tag |-> "Ok", val |-> <<FMul(a, b)>>, msg |-> ""] >>

\* C10 witness: a multiplication by zero returned Ok.
C10_Witness ==
    /\ pc = "exit"
    /\ called[1][1] = <<"*">>
    /\ called[1][3] = PosZero
    /\ result[1].tag = "Ok"

=============================================================================
